---- MODULE Spec2Model ----
(***************************************************************************)
(* Model of ConverterCore (src/converter.py): the temporal resampler and   *)
(* frame extractor (extract_frames / save_frame), the encoder wrapper      *)
(* (convert_to_video) and the job runner (run) with its temporary          *)
(* directory, progress callbacks and cleanup.                              *)
(*                                                                         *)
(* Six specifications share the module:                                    *)
(*   Spec         - one call of ConverterCore.run, extract_frames taken as *)
(*                  one blocking call (run is single threaded around it),  *)
(*                  and what the caller reports when run has ended;        *)
(*   SpecExtract  - the extract_frames calls of a run, with the thread     *)
(*                  pool's save_frame tasks interleaved step by step;      *)
(*   SpecResample - the resampling step of extract_frames alone, over      *)
(*                  longer files and more speed factors;                   *)
(*   SpecResolve  - one call of get_target_size over scale factors, preset *)
(*                  names and custom dimensions;                           *)
(*   SpecOverlay  - conversions started from the GUI on its one            *)
(*                  ConverterCore, the overlay file changing in between;   *)
(*   SpecGui      - the GUI's file list actions and two conversion threads *)
(*                  on the one ConverterCore, each file of one frame.      *)
(***************************************************************************)
EXTENDS Integers, Sequences, FiniteSets, TLC

\* ------------------------------------------------------------------ bounds
MaxFiles == 3
MaxFrames == 3
MaxRunFrames == 1
MaxWorkers == 2
MaxCount == 12

\* ------------------------------------------------------- program constants
\* f"frame_{frame_idx:06d}.png": minimum width of the zero-padded index
PadWidth == 6
\* steps_per_file = 2  (extract + encode)
steps_per_file == 2

\* --------------------------------------------------------------- inputs
\* A source file: whether the decoder reads it to the end, and how many frames
\* it yields (for an unreadable file: the frames read before the decoder
\* raised; a file that fails at Image.open behaves the same, nothing read is
\* used).
SourceFiles ==
    {[ok |-> FALSE, n |-> 1]} \cup {[ok |-> TRUE, n |-> k] : k \in 0..MaxFrames}
\* The files of a whole run are kept shorter than those of a single
\* extract_frames call.
RunFiles == {f \in SourceFiles : f.n <= MaxRunFrames}

\* Speed factors as exact fractions <<numerator, denominator>> in lowest terms
\* (all of them binary fractions, so the float product N*s is exact).
RunSpeeds == {<<1, 1>>, <<2, 1>>}
PoolSpeeds == {<<1, 2>>, <<1, 1>>, <<2, 1>>}
Speeds == {<<1, 4>>, <<1, 2>>, <<3, 4>>, <<1, 1>>, <<3, 2>>, <<2, 1>>, <<5, 2>>}

OutputFormats == {".mp4", ".gif"}

\* Outcomes of one convert_to_video call: the output directory cannot be
\* created (raised outside the try blocks), the encoder fails (caught), or
\* the output file is written.
EncodeOutcomes == {"mkdir_error", "encoder_error", "ok"}
\* if not frames: ... return   (lines 218-220)
NoFrames == "no_frames"

\* ------------------------------------------------------------- helpers
Max(a, b) == IF a >= b THEN a ELSE b
Min(a, b) == IF a <= b THEN a ELSE b

\* Python's round() of the non-negative fraction num/den: nearest integer,
\* a tie going to the even neighbour.
PyRound(num, den) ==
    LET q == num \div den
        r == num % den
    IN  IF 2 * r < den THEN q
        ELSE IF 2 * r > den THEN q + 1
        ELSE IF q % 2 = 0 THEN q ELSE q + 1

\* new_count = max(1, int(round(original_count * self.speed_factor)))
\* The count divided by the speed factor instead of multiplied.
NewCountInverse(original_count, s) == Max(1, PyRound(original_count * s[2], s[1]))
NewCountNoFloor(original_count, s) == PyRound(original_count * s[1], s[2])
NewCount(original_count, s) == Max(1, PyRound(original_count * s[1], s[2]))

\* The resampled sequence of extract_frames as source indices (0-based values,
\* position i of the sequence is element i+1).
Indices(original_count, s) ==
    IF s # <<1, 1>>
    THEN IF original_count = 0
         THEN << >>
         ELSE LET new_count == NewCount(original_count, s)
              IN  [i \in 1..new_count |->
                     Min(original_count - 1,
                         ((i - 1) * original_count) \div new_count)]
    ELSE [i \in 1..original_count |-> i - 1]

\* frame_idx = start_idx + i for the k submitted frames (the frame number
\* stands for the path temp_dir/frame_<idx>.png).
FramePaths(start_idx, k) == [i \in 1..k |-> start_idx + (i - 1)]

\* What extract_frames returns: nothing when the decoder raises, else one
\* path per resampled frame.
ExtractFramesAlways(file, start_idx, s) ==
    FramePaths(start_idx, Len(Indices(file.n, s)))
ExtractFrames(file, start_idx, s) ==
    IF ~file.ok THEN << >>
    ELSE FramePaths(start_idx, Len(Indices(file.n, s)))

\* Path(self.temp_dir).mkdir(...) is reached only after a successful decode
\* and, with a speed factor, a non-empty frame list.
ReachesMkdir(file, s) == file.ok /\ ~(s # <<1, 1>> /\ file.n = 0)

Range(seq) == {seq[i] : i \in 1..Len(seq)}

\* f"frame_{frame_idx:06d}.png" as the sequence of its character codes: the
\* decimal digits of the index, zero-padded to at least PadWidth digits.
RECURSIVE Digits(_)
Digits(n) == IF n < 10 THEN <<n>> ELSE Append(Digits(n \div 10), n % 10)

ZeroPad(ds, width) ==
    [i \in 1..(Max(width, Len(ds)) - Len(ds)) |-> 0] \o ds

FrameName(frame_idx) ==
    <<102, 114, 97, 109, 101, 95>>                      \* "frame_"
    \o [i \in 1..Len(ZeroPad(Digits(frame_idx), PadWidth)) |->
           48 + ZeroPad(Digits(frame_idx), PadWidth)[i]]
    \o <<46, 112, 110, 103>>                            \* ".png"

\* a < b for strings (Python's str order, the order of sorted()).
RECURSIVE StrLess(_, _)
StrLess(a, b) ==
    IF b = << >> THEN FALSE
    ELSE IF a = << >> THEN TRUE
    ELSE IF a[1] # b[1] THEN a[1] < b[1]
    ELSE StrLess(Tail(a), Tail(b))

\* ------------------------------------------------------------------ state
VARIABLES
    \* ConverterCore settings and the arguments of run
    webp_files, combine_videos, output_format, speed_factor, max_workers,
    keep_temp, progress_callback,
    \* ConverterCore.run: position and locals
    pc, total_files, current_step, idx, all_frames, frames,
    temp_dir, temp_dir_obj, exc,
    \* the file system: temporary directories, frame files, output files
    dirs, disk, outputs,
    \* history: callback events, extract/encode calls, releases of the
    \* temporary directory
    events, calls, releases,
    \* one extract_frames call with its thread pool (SpecExtract)
    x_pc, x_file, x_start, x_adjusted, x_frames, x_task, x_written, x_error,
    x_call,
    \* ConverterCore settings read by get_target_size, its argument and result
    scale_factor, resolution_preset, custom_width, custom_height,
    t_pc, t_size, t_result,
    \* the overlay: the core's path and image, the GUI's switch and path, the
    \* image file, and what the last run did with it
    overlay_image_path, overlay_img, g_overlay_enabled, g_overlay_path,
    overlay_file, o_loaded, o_applied, o_runs,
    \* the GUI and its conversion threads on the one ConverterCore: the list
    \* objects and who refers to them, core.temp_dir, the directories and
    \* frame files, each thread's locals, and the encodes and deletions done
    app_webp_files, core_webp_files, heap, n_lists, core_temp_dir,
    g_dirs, g_disk, g_ops, th,
    \* what the caller of run reports to the user
    report

settings == <<webp_files, combine_videos, output_format, speed_factor,
              max_workers, keep_temp, progress_callback>>
runvars == <<pc, total_files, current_step, idx, all_frames, frames,
             temp_dir, temp_dir_obj, exc, dirs, disk, outputs,
             events, calls, releases>>
xvars == <<x_pc, x_file, x_start, x_adjusted, x_frames, x_task, x_written,
           x_error, x_call>>
resolvervars == <<scale_factor, resolution_preset, custom_width,
                  custom_height, t_pc, t_size, t_result>>
overlayvars == <<overlay_image_path, overlay_img, g_overlay_enabled,
                 g_overlay_path, overlay_file, o_loaded, o_applied, o_runs>>
guivars == <<app_webp_files, core_webp_files, heap, n_lists, core_temp_dir,
             g_dirs, g_disk, g_ops, th>>
othervars == <<resolvervars, overlayvars, guivars>>
vars == <<settings, runvars, xvars, othervars, report>>

\* ----------------------------------------------------- progress events
Status(kind, file) ==
    [t |-> "status", kind |-> kind, file |-> file, num |-> 0, den |-> 1]
Fraction(step, total) ==
    [t |-> "fraction", kind |-> "", file |-> 0, num |-> step, den |-> total]

\* if progress_callback: progress_callback(...)
CB(evs, e) == IF progress_callback THEN Append(evs, e) ELSE evs

\* The two callbacks around the extract step of file i, in call order.
ProgressExtractSwapped(evs, i, step, total) ==
    CB(CB(evs, Fraction(step, total)), Status("extract", i))
ProgressExtract(evs, i, step, total) ==
    CB(CB(evs, Status("extract", i)), Fraction(step, total))

\* The two callbacks around the encode step (i = 0: the combined video).
ProgressEncodeSwapped(evs, i, step, total) ==
    CB(CB(evs, Fraction(step, total)), Status("encode", i))
ProgressEncode(evs, i, step, total) ==
    CB(CB(evs, Status("encode", i)), Fraction(step, total))

\* History records of the calls run makes.
ExtractCall(file, start, paths, step) ==
    [op |-> "extract", file |-> file, start |-> start, paths |-> paths,
     stem |-> "", outcome |-> "", step |-> step]
EncodeCall(file, paths, stem, outcome, step) ==
    [op |-> "encode", file |-> file, start |-> 0, paths |-> paths,
     stem |-> stem, outcome |-> outcome, step |-> step]

\* ------------------------------------------------------------ run: set-up
\* if self.combine_videos and self.output_format == ".gif": ... return
InvalidCombinationNever(combine, format) == FALSE
InvalidCombination(combine, format) == combine /\ format = ".gif"

XIdle ==
    /\ x_pc = "off" /\ x_file = [ok |-> FALSE, n |-> 1] /\ x_start = 0
    /\ x_adjusted = << >> /\ x_frames = << >> /\ x_task = << >>
    /\ x_written = {} /\ x_error = FALSE /\ x_call = 0

\* None, and a value that is not None (custom_width, custom_height).
None == << >>
Some(v) == <<v>>

\* "Same Resolution" and the other names as sequences of character codes.
SameResolution ==
    <<83, 97, 109, 101, 32, 82, 101, 115, 111, 108, 117, 116, 105, 111, 110>>

\* ConverterCore.__init__ (lines 50-67): no scaling, no custom size, no
\* overlay; get_target_size not called.
ResolverIdle ==
    /\ scale_factor = <<1, 1>> /\ resolution_preset = SameResolution
    /\ custom_width = None /\ custom_height = None
    /\ t_pc = "off" /\ t_size = <<0, 0>> /\ t_result = <<0, 0>>

\* List objects the GUI can make during a session (select_webps and
\* clear_file_list bind a new list each time).
MaxLists == 3
\* The conversion threads of a session: a first one and one started while
\* it runs.
Runs == {1, 2}

\* A conversion thread that has not been started.
ThreadIdle ==
    [pc |-> "idle", it_ref |-> 0, it_pos |-> 0, total |-> 0, file |-> "",
     frames |-> {}, dir |-> 0, snapshot |-> << >>, processed |-> << >>,
     wrote |-> {}]

\* WebPConverterApp.__init__ (lines 424-426) and ConverterCore.__init__
\* (line 60): two distinct empty lists, object 1 the GUI's and object 0 the
\* core's; no temporary directory.
GuiIdle ==
    /\ app_webp_files = 1 /\ core_webp_files = 0
    /\ heap = [i \in 0..MaxLists |-> << >>] /\ n_lists = 1
    /\ core_temp_dir = 0
    /\ g_dirs = {} /\ g_disk = {} /\ g_ops = {}
    /\ th = [r \in Runs |-> ThreadIdle]

\* Image files the overlay path can name, and what os.path.exists and
\* Image.open make of each (lines 78-85).
OverlayPaths == {"logo.png", "mark.png"}
FileStates == {"readable", "unreadable", "missing"}

OverlayIdle ==
    /\ overlay_image_path = None /\ overlay_img = None
    /\ g_overlay_enabled = FALSE /\ g_overlay_path = None
    /\ overlay_file = [p \in OverlayPaths |-> "missing"]
    /\ o_loaded = "not_called" /\ o_applied = FALSE /\ o_runs = 0

Init ==
    /\ webp_files \in UNION {[1..k -> RunFiles] : k \in 0..MaxFiles}
    /\ combine_videos \in BOOLEAN
    /\ output_format \in OutputFormats
    /\ speed_factor \in RunSpeeds
    /\ max_workers = 1            \* not read by run itself
    /\ keep_temp \in BOOLEAN
    /\ progress_callback \in BOOLEAN
    /\ pc = "idle"
    /\ total_files = 0 /\ current_step = 0 /\ idx = 0
    /\ all_frames = << >> /\ frames = << >>
    /\ temp_dir = 0 /\ temp_dir_obj = FALSE /\ exc = FALSE
    /\ dirs = {} /\ disk = {} /\ outputs = {}
    /\ events = << >> /\ calls = << >> /\ releases = 0
    /\ XIdle /\ ResolverIdle /\ OverlayIdle /\ GuiIdle
    /\ report = ""

\* run, lines 264-288: the empty list and the combine + GIF check return
\* before the temporary directory is made; otherwise mkdtemp (kept) or
\* TemporaryDirectory (released in the finally block).
Run ==
    /\ pc = "idle"
    /\ total_files' = Len(webp_files)
    /\ IF Len(webp_files) = 0 \/ InvalidCombination(combine_videos, output_format)
       THEN /\ pc' = "returned"
            /\ UNCHANGED <<temp_dir, temp_dir_obj, dirs>>
       ELSE /\ pc' = "loop"
            /\ temp_dir' = 1
            /\ temp_dir_obj' = ~keep_temp
            /\ dirs' = dirs \cup {1}
    /\ UNCHANGED <<current_step, idx, all_frames, frames, exc, disk, outputs,
                   events, calls, releases>>
    /\ UNCHANGED <<settings, xvars, othervars, report>>

\* ------------------------------------------------------ run: extract step
\* start_idx=len(all_frames) in combine mode, the default 0 otherwise.
StartIdxZero(combine, acc) == 0
StartIdx(combine, acc) == IF combine THEN Len(acc) ELSE 0

\* Lines 293-300 and 321-329: the next file of the enumeration is extracted;
\* each submitted frame is saved or not (save_frame swallows its errors):
\* here every save succeeds or one of them fails, SpecExtract explores every
\* combination.
ExtractFile ==
    /\ pc = "loop"
    /\ idx < Len(webp_files)
    /\ LET i == idx + 1
           file == webp_files[i]
           start == StartIdx(combine_videos, all_frames)
           extracted == ExtractFrames(file, start, speed_factor)
           step == current_step + 1
       IN  /\ \E failed \in {{}} \cup {{j} : j \in 1..Len(extracted)} :
                disk' = disk \cup
                    {<<temp_dir, extracted[j]>> :
                        j \in (1..Len(extracted)) \ failed}
           /\ dirs' = IF ReachesMkdir(file, speed_factor)
                      THEN dirs \cup {temp_dir} ELSE dirs
           /\ calls' = Append(calls, ExtractCall(i, start, extracted, step))
           /\ current_step' = step
           /\ events' = ProgressExtract(events, i, step,
                                        total_files * steps_per_file)
           /\ IF combine_videos
              THEN /\ all_frames' = all_frames \o extracted
                   /\ idx' = i
                   /\ pc' = "loop"
                   /\ UNCHANGED frames
              ELSE /\ frames' = extracted
                   /\ UNCHANGED all_frames
                   /\ IF extracted # << >>
                      THEN pc' = "encode" /\ UNCHANGED idx
                      ELSE pc' = "loop" /\ idx' = i
    /\ UNCHANGED <<total_files, temp_dir, temp_dir_obj, exc, outputs, releases>>
    /\ UNCHANGED <<settings, xvars, othervars, report>>

\* ------------------------------------------------------- run: encode step
\* f"{Path(webp_file).stem}_{uuid}{fmt}" or f"combined_{uuid}{fmt}": the
\* random part is left out, file = 0 for the combined output.
OutputName(i, format) ==
    [stem |-> IF i = 0 THEN "combined" ELSE "source", file |-> i,
     ext |-> format]

\* The encoder opens every path it is given: with a frame file missing it
\* cannot succeed.
PossibleOutcomes(dir, paths) ==
    IF paths = << >> THEN {NoFrames}
    ELSE IF \A j \in 1..Len(paths) : <<dir, paths[j]>> \in disk
         THEN EncodeOutcomes
         ELSE EncodeOutcomes \ {"ok"}

\* convert_to_video: Path(output_path).parent.mkdir(...) (line 223) is
\* outside the try blocks and propagates; encoder errors are caught.
EncodeRaisesUncaught(outcome) == outcome \in {"mkdir_error", "encoder_error"}
EncodeRaises(outcome) == outcome = "mkdir_error"

\* for f in frames: Path(f).unlink(missing_ok=True)
UnlinkNothing(files, dir, paths) == files
Unlink(files, dir, paths) == files \ {<<dir, p>> : p \in Range(paths)}

\* Lines 329-345: encode the frames of file idx+1, count the step, delete
\* the frame files, go on with the next file.
EncodeFile ==
    /\ pc = "encode"
    /\ LET i == idx + 1
           total == total_files * steps_per_file
       IN  \E outcome \in PossibleOutcomes(temp_dir, frames) :
             IF EncodeRaises(outcome)
             THEN /\ events' = CB(events, Status("encode", i))
                  /\ calls' = Append(calls,
                        EncodeCall(i, frames, "source", outcome, current_step))
                  /\ exc' = TRUE
                  /\ pc' = "finally"
                  /\ UNCHANGED <<current_step, idx, disk, outputs>>
             ELSE /\ events' = ProgressEncode(events, i, current_step + 1, total)
                  /\ calls' = Append(calls,
                        EncodeCall(i, frames, "source", outcome, current_step + 1))
                  /\ current_step' = current_step + 1
                  /\ outputs' = IF outcome = "ok"
                                THEN outputs \cup {OutputName(i, output_format)}
                                ELSE outputs
                  /\ disk' = Unlink(disk, temp_dir, frames)
                  /\ idx' = i
                  /\ pc' = "loop"
                  /\ UNCHANGED exc
    /\ UNCHANGED <<total_files, all_frames, frames, temp_dir, temp_dir_obj,
                   dirs, releases>>
    /\ UNCHANGED <<settings, xvars, othervars, report>>

\* if all_frames:  (line 302)
ShouldEncodeCombinedAlways(acc) == TRUE
ShouldEncodeCombined(acc) == acc # << >>

\* The for loop is exhausted (lines 293/321): combine mode goes on to the
\* single encode step, everything else to the finally block.
LoopEnd ==
    /\ pc = "loop"
    /\ idx >= Len(webp_files)
    /\ pc' = IF combine_videos /\ ShouldEncodeCombined(all_frames)
             THEN "encode_combined" ELSE "finally"
    /\ UNCHANGED <<total_files, current_step, idx, all_frames, frames,
                   temp_dir, temp_dir_obj, exc, dirs, disk, outputs,
                   events, calls, releases>>
    /\ UNCHANGED <<settings, xvars, othervars, report>>

\* Lines 302-319: one encode over all accumulated frames.
EncodeCombined ==
    /\ pc = "encode_combined"
    /\ LET total == total_files * steps_per_file
       IN  \E outcome \in PossibleOutcomes(temp_dir, all_frames) :
             IF EncodeRaises(outcome)
             THEN /\ events' = CB(events, Status("encode", 0))
                  /\ calls' = Append(calls,
                        EncodeCall(0, all_frames, "combined", outcome,
                                   current_step))
                  /\ exc' = TRUE
                  /\ UNCHANGED <<current_step, disk, outputs>>
             ELSE /\ events' = ProgressEncode(events, 0, current_step + 1, total)
                  /\ calls' = Append(calls,
                        EncodeCall(0, all_frames, "combined", outcome,
                                   current_step + 1))
                  /\ current_step' = current_step + 1
                  /\ outputs' = IF outcome = "ok"
                                THEN outputs \cup {OutputName(0, output_format)}
                                ELSE outputs
                  /\ disk' = Unlink(disk, temp_dir, all_frames)
                  /\ UNCHANGED exc
    /\ pc' = "finally"
    /\ UNCHANGED <<total_files, idx, all_frames, frames, temp_dir,
                   temp_dir_obj, dirs, releases>>
    /\ UNCHANGED <<settings, xvars, othervars, report>>

\* ------------------------------------------------------ run: finally, end
\* The release placed after the try statement instead of in its finally
\* block: skipped while an exception propagates.
FinallyOnlyOnSuccess ==
    /\ pc = "finally"
    /\ IF ~keep_temp /\ temp_dir_obj /\ ~exc
       THEN /\ dirs' = dirs \ {temp_dir}
            /\ disk' = {f \in disk : f[1] # temp_dir}
            /\ releases' = releases + 1
       ELSE UNCHANGED <<dirs, disk, releases>>
    /\ pc' = IF exc THEN "raised" ELSE "done"
    /\ UNCHANGED <<total_files, current_step, idx, all_frames, frames,
                   temp_dir, temp_dir_obj, exc, outputs, events, calls>>
    /\ UNCHANGED <<settings, xvars, othervars, report>>

\* finally: (lines 346-351) runs on the normal path and while an exception
\* propagates; temp_dir_obj.cleanup() removes the directory and its files.
Finally ==
    /\ pc = "finally"
    /\ IF ~keep_temp /\ temp_dir_obj
       THEN /\ dirs' = dirs \ {temp_dir}
            /\ disk' = {f \in disk : f[1] # temp_dir}
            /\ releases' = releases + 1
       ELSE UNCHANGED <<dirs, disk, releases>>
    /\ pc' = IF exc THEN "raised" ELSE "done"
    /\ UNCHANGED <<total_files, current_step, idx, all_frames, frames,
                   temp_dir, temp_dir_obj, exc, outputs, events, calls>>
    /\ UNCHANGED <<settings, xvars, othervars, report>>

\* Lines 353-354: progress_callback("Done!") and the implicit return.
Done ==
    /\ pc = "done"
    /\ events' = CB(events, Status("done", 0))
    /\ pc' = "returned"
    /\ UNCHANGED <<total_files, current_step, idx, all_frames, frames,
                   temp_dir, temp_dir_obj, exc, dirs, disk, outputs,
                   calls, releases>>
    /\ UNCHANGED <<settings, xvars, othervars, report>>

\* run has ended: by return or by an exception that left it.
Terminated == pc \in {"returned", "raised"}

\* What the caller of run tells the user. start_conversion (lines 856-861)
\* runs with the default keep_temp and a callback and shows one of two
\* toasts; batch_convert (lines 980-981) prints its line after run has
\* returned, and an exception of run leaves it as a traceback.
Callers == {"gui", "cli"}
Report ==
    /\ Terminated
    /\ report = ""
    /\ \E caller \in Callers :
          /\ caller = "gui" => (~keep_temp /\ progress_callback)
          /\ caller = "cli" => progress_callback
          /\ report' =
                IF caller = "gui"
                THEN IF pc = "returned" THEN "Conversion completed"
                     ELSE "Conversion failed"
                ELSE IF pc = "returned" THEN "Batch conversion finished"
                     ELSE "Traceback"
    /\ UNCHANGED <<settings, runvars, xvars, othervars>>

Next ==
    \/ Run
    \/ ExtractFile
    \/ EncodeFile
    \/ LoopEnd
    \/ EncodeCombined
    \/ Finally
    \/ Done
    \/ Report

Spec == Init /\ [][Next]_vars

\* ============================================ extract_frames, step by step
\* start_idx values: small ones, and one just below the first index that no
\* longer fits PadWidth digits (combine mode passes len(all_frames)).
StartIdxs == {0, 5, 999998}

\* The run is inside one extract_frames call: the temporary directory exists.
InExtract ==
    /\ combine_videos = (x_start # 0)
    /\ output_format = ".mp4"
    /\ keep_temp = FALSE /\ progress_callback = FALSE
    /\ pc = "loop" /\ total_files = Len(webp_files)
    /\ current_step = 0 /\ idx = 0
    /\ all_frames = << >> /\ frames = << >>
    /\ temp_dir = 1 /\ temp_dir_obj = TRUE /\ exc = FALSE
    /\ dirs = {1} /\ disk = {} /\ outputs = {}
    /\ events = << >> /\ calls = << >> /\ releases = 0
    /\ x_pc = "decode" /\ x_call = 1
    /\ x_adjusted = << >> /\ x_frames = << >> /\ x_task = << >>
    /\ x_written = {} /\ x_error = FALSE
    /\ ResolverIdle /\ OverlayIdle /\ GuiIdle
    /\ report = ""

\* extract_frames calls followed through in one run.
MaxCalls == 2

InitExtract ==
    /\ x_file \in SourceFiles
    /\ webp_files \in {[i \in 1..k |-> x_file] : k \in 1..MaxCalls}
    /\ x_start \in StartIdxs
    /\ speed_factor \in PoolSpeeds
    /\ max_workers \in 1..MaxWorkers
    /\ InExtract

\* Lines 173-193: decode every frame, resample, make sure the directory
\* exists. A decoder error is caught by the outer except (line 211) and the
\* empty list is returned; so is an empty file under a speed factor.
\* int(i * original_count / new_count) is a float division: exact for every
\* count below 2^53, taken here as the integer quotient.
XDecode ==
    /\ x_pc = "decode"
    /\ IF ~x_file.ok
       THEN /\ x_error' = TRUE
            /\ x_pc' = "returned"
            /\ UNCHANGED <<x_adjusted, dirs>>
       ELSE IF speed_factor # <<1, 1>> /\ x_file.n = 0
       THEN /\ x_pc' = "returned"
            /\ UNCHANGED <<x_adjusted, x_error, dirs>>
       ELSE /\ x_adjusted' = Indices(x_file.n, speed_factor)
            /\ dirs' = dirs \cup {temp_dir}
            /\ x_pc' = IF Indices(x_file.n, speed_factor) = << >>
                       THEN "wait" ELSE "submit"
            /\ UNCHANGED x_error
    /\ UNCHANGED <<x_call, x_file, x_start, x_frames, x_task, x_written>>
    /\ UNCHANGED <<othervars, report>>
    /\ UNCHANGED <<settings, pc, total_files, current_step, idx, all_frames,
                   frames, temp_dir, temp_dir_obj, exc, disk, outputs,
                   events, calls, releases>>

\* Lines 198-202: the path of frame i is computed and handed to the task
\* with the frame, then appended to the list that is returned.
XSubmit ==
    /\ x_pc = "submit"
    /\ LET i == Len(x_frames)
           frame_idx == x_start + i
       IN  /\ x_task' = Append(x_task,
                  [path |-> frame_idx, pos |-> i, src |-> x_adjusted[i + 1],
                   st |-> "pending", call |-> x_call])
           /\ x_frames' = Append(x_frames, frame_idx)
           /\ x_pc' = IF i + 1 = Len(x_adjusted) THEN "wait" ELSE "submit"
    /\ UNCHANGED <<x_call, x_file, x_start, x_adjusted, x_written, x_error>>
    /\ UNCHANGED <<settings, runvars, othervars, report>>

Running == {t \in 1..Len(x_task) : x_task[t].st = "running"}
Pending == {t \in 1..Len(x_task) : x_task[t].st = "pending"}

\* ThreadPoolExecutor(max_workers=...): an idle worker takes the oldest
\* queued task.
XStartSaveUnbounded ==
    /\ Pending # {}
    /\ LET t == CHOOSE p \in Pending : \A q \in Pending : p <= q
       IN  x_task' = [x_task EXCEPT ![t].st = "running"]
    /\ UNCHANGED <<x_pc, x_call, x_file, x_start, x_adjusted, x_frames, x_written,
                   x_error>>
    /\ UNCHANGED <<settings, runvars, othervars, report>>
XStartSave ==
    /\ Pending # {}
    /\ Cardinality(Running) < max_workers
    /\ LET t == CHOOSE p \in Pending : \A q \in Pending : p <= q
       IN  x_task' = [x_task EXCEPT ![t].st = "running"]
    /\ UNCHANGED <<x_pc, x_call, x_file, x_start, x_adjusted, x_frames, x_written,
                   x_error>>
    /\ UNCHANGED <<settings, runvars, othervars, report>>

\* save_frame (lines 149-169) of one running task: the frame is written to
\* the task's path, or an exception is caught and logged and nothing is.
XSaveFrame ==
    /\ \E t \in Running :
         \E saved \in BOOLEAN :
            /\ x_task' = [x_task EXCEPT ![t].st =
                             IF saved THEN "saved" ELSE "failed"]
            /\ x_written' = IF saved
                            THEN x_written \cup
                                 {[path |-> x_task[t].path,
                                   pos |-> x_task[t].pos,
                                   src |-> x_task[t].src]}
                            ELSE x_written
    /\ UNCHANGED <<x_pc, x_call, x_file, x_start, x_adjusted, x_frames, x_error>>
    /\ UNCHANGED <<settings, runvars, othervars, report>>

\* Lines 204-214: as_completed and the with block wait for every future,
\* then the list is returned.
XReturnEarly ==
    /\ x_pc = "wait"
    /\ x_pc' = "returned"
    /\ UNCHANGED <<x_call, x_file, x_start, x_adjusted, x_frames, x_task, x_written,
                   x_error>>
    /\ UNCHANGED <<settings, runvars, othervars, report>>
XReturn ==
    /\ x_pc = "wait"
    /\ \A t \in 1..Len(x_task) : x_task[t].st \in {"saved", "failed"}
    /\ x_pc' = "returned"
    /\ UNCHANGED <<x_call, x_file, x_start, x_adjusted, x_frames, x_task, x_written,
                   x_error>>
    /\ UNCHANGED <<settings, runvars, othervars, report>>

\* What run begins once extract_frames has returned (the effects of these
\* steps are those of EncodeFile, LoopEnd and Finally above). Non-combine
\* mode, lines 329-345: the encode step when frames came back, then the
\* deletion of the frame files. Combine mode, lines 298-300: the list is
\* appended and the loop goes on.
XCallerStep ==
    /\ x_pc \in {"returned", "encode", "unlink"}
    /\ x_pc' = IF x_pc = "returned"
               THEN IF ~combine_videos /\ x_frames # << >>
                    THEN "encode" ELSE "next"
               ELSE IF x_pc = "encode" THEN "unlink" ELSE "next"
    /\ UNCHANGED <<x_call, x_file, x_start, x_adjusted, x_frames, x_task, x_written,
                   x_error>>
    /\ UNCHANGED <<settings, runvars, othervars, report>>

\* Save tasks of earlier calls that have not finished.
Unfinished(tasks) ==
    SelectSeq(tasks, LAMBDA t : t.st \in {"pending", "running"})

\* The next iteration of the loop (lines 293-296, 322-324): extract_frames
\* is called for the next file, with start_idx=len(all_frames) in combine
\* mode.
XNextCall ==
    /\ x_pc = "next"
    /\ x_call < Len(webp_files)
    /\ x_call' = x_call + 1
    /\ x_start' = IF combine_videos THEN x_start + Len(x_frames) ELSE 0
    /\ x_pc' = "decode"
    /\ x_adjusted' = << >> /\ x_frames' = << >>
    /\ x_task' = Unfinished(x_task)
    /\ x_written' = {} /\ x_error' = FALSE
    /\ UNCHANGED x_file
    /\ UNCHANGED <<settings, runvars, othervars, report>>

\* After the last file (in combine mode, after the combined encode and the
\* deletion, lines 302-319): the finally block releases the directory.
XRelease ==
    /\ x_pc = "next"
    /\ x_call = Len(webp_files)
    /\ x_pc' = "released"
    /\ UNCHANGED <<x_call, x_file, x_start, x_adjusted, x_frames, x_task, x_written,
                   x_error>>
    /\ UNCHANGED <<settings, runvars, othervars, report>>

NextExtract ==
    \/ XDecode
    \/ XSubmit
    \/ XStartSave
    \/ XSaveFrame
    \/ XReturn
    \/ XCallerStep
    \/ XNextCall
    \/ XRelease

SpecExtract == InitExtract /\ [][NextExtract]_vars

\* The resampler alone, over longer files and more speed factors: the first
\* step of extract_frames.
InitResample ==
    /\ x_file \in [ok : {TRUE}, n : 0..MaxCount]
    /\ webp_files = <<x_file>>
    /\ x_start = 0
    /\ speed_factor \in Speeds
    /\ max_workers = 1
    /\ InExtract

SpecResample == InitResample /\ [][XDecode]_vars

\* ==================================================== get_target_size
P480 == <<52, 56, 48, 112>>    \* "480p"
P720 == <<55, 50, 48, 112>>    \* "720p"
P720Upper == <<55, 50, 48, 80>>    \* "720P"
P1080 == <<49, 48, 56, 48, 112>>    \* "1080p"
P4k == <<52, 107>>    \* "4k"
P4K == <<52, 75>>    \* "4K"
CustomLower == <<99, 117, 115, 116, 111, 109>>    \* "custom"
CustomTitle == <<67, 117, 115, 116, 111, 109>>    \* "Custom"
CustomUpper == <<67, 85, 83, 84, 79, 77>>    \* "CUSTOM"

\* str.lower(): an upper-case ASCII letter becomes the lower-case one.
Lower(str) ==
    [i \in 1..Len(str) |-> IF str[i] \in 65..90 THEN str[i] + 32 ELSE str[i]]

\* RESOLUTION_MAP (lines 368-373)
RESOLUTION_MAP ==
    (P480 :> <<854, 480>>) @@ (P720 :> <<1280, 720>>)
    @@ (P1080 :> <<1920, 1080>>) @@ (P4k :> <<3840, 2160>>)

\* Truth value of `self.custom_width` in a condition: neither None nor 0.
Truthy(x) == x # None /\ x[1] # 0
\* A width that is set and strictly positive.
Positive(x) == x # None /\ x[1] > 0

\* get_target_size (lines 88-114), first match wins. int(round(w * scale))
\* is Python's round of the product.
get_target_size_custom_first(original_size, scale, preset, cw, ch) ==
    IF Lower(preset) = CustomLower /\ Truthy(cw) /\ Truthy(ch)
    THEN <<cw[1], ch[1]>>
    ELSE IF scale # <<1, 1>> /\ scale[1] > 0
    THEN <<PyRound(original_size[1] * scale[1], scale[2]),
           PyRound(original_size[2] * scale[1], scale[2])>>
    ELSE IF Lower(preset) \in DOMAIN RESOLUTION_MAP
    THEN RESOLUTION_MAP[Lower(preset)]
    ELSE original_size
get_target_size(original_size, scale, preset, cw, ch) ==
    IF scale # <<1, 1>> /\ scale[1] > 0
    THEN <<PyRound(original_size[1] * scale[1], scale[2]),
           PyRound(original_size[2] * scale[1], scale[2])>>
    ELSE IF Lower(preset) = CustomLower /\ Truthy(cw) /\ Truthy(ch)
    THEN <<cw[1], ch[1]>>
    ELSE IF Lower(preset) \in DOMAIN RESOLUTION_MAP
    THEN RESOLUTION_MAP[Lower(preset)]
    ELSE original_size

\* Scale factors as fractions: the default, enlarging, shrinking, and the
\* values `> 0` rejects.
ScaleFactors == {<<1, 1>>, <<3, 2>>, <<1, 2>>, <<0, 1>>, <<-1, 1>>}
\* resolution_preset: the GUI's names (RESOLUTION_PRESETS, line 376), the
\* lower-case names batch_convert stores (line 962) and other spellings.
PresetNames ==
    {SameResolution, P480, P720, P720Upper, P1080, P4k, P4K,
     CustomLower, CustomTitle, CustomUpper}
\* custom_width / custom_height: None (lines 51-52, 831-835), or what
\* int() of the GUI field or of the W or H of --resolution WxH gives
\* (lines 828-829, 965-967): 0 and negative numbers included.
CustomDims == {None, Some(0), Some(-5), Some(640)}
OriginalSizes == {<<800, 600>>, <<5, 3>>, <<1, 1>>}

InitResolve ==
    /\ scale_factor \in ScaleFactors
    /\ resolution_preset \in PresetNames
    /\ custom_width \in CustomDims
    /\ custom_height \in CustomDims
    /\ t_size \in OriginalSizes
    /\ t_pc = "call" /\ t_result = <<0, 0>>
    /\ webp_files = << >> /\ combine_videos = FALSE /\ output_format = ".mp4"
    /\ speed_factor = <<1, 1>> /\ max_workers = 1
    /\ keep_temp = FALSE /\ progress_callback = FALSE
    /\ pc = "idle"
    /\ total_files = 0 /\ current_step = 0 /\ idx = 0
    /\ all_frames = << >> /\ frames = << >>
    /\ temp_dir = 0 /\ temp_dir_obj = FALSE /\ exc = FALSE
    /\ dirs = {} /\ disk = {} /\ outputs = {}
    /\ events = << >> /\ calls = << >> /\ releases = 0
    /\ XIdle /\ OverlayIdle /\ GuiIdle
    /\ report = ""

\* One call of get_target_size: it returns the size and assigns nothing.
GetTargetSize ==
    /\ t_pc = "call"
    /\ t_result' = get_target_size(t_size, scale_factor, resolution_preset,
                                   custom_width, custom_height)
    /\ t_pc' = "returned"
    /\ UNCHANGED <<scale_factor, resolution_preset, custom_width,
                   custom_height, t_size>>
    /\ UNCHANGED <<settings, runvars, xvars, overlayvars, guivars, report>>

SpecResolve == InitResolve /\ [][GetTargetSize]_vars

\* ======================================================== overlay, GUI
MaxOverlayRuns == 2

\* load_overlay (lines 76-86): the new overlay_img and the value returned.
\* With no path or no file it returns False and assigns nothing.
load_overlay(path, img, files) ==
    IF path = None \/ files[path[1]] = "missing"
    THEN [img |-> img, ok |-> FALSE]
    ELSE IF files[path[1]] = "readable"
    THEN [img |-> Some(path[1]), ok |-> TRUE]
    ELSE [img |-> None, ok |-> FALSE]

InitOverlay ==
    /\ overlay_file \in [OverlayPaths -> FileStates]
    /\ overlay_image_path = None /\ overlay_img = None
    /\ g_overlay_enabled = FALSE /\ g_overlay_path = None
    /\ o_loaded = "not_called" /\ o_applied = FALSE /\ o_runs = 0
    /\ webp_files = <<[ok |-> TRUE, n |-> 1]>>
    /\ combine_videos = FALSE /\ output_format = ".mp4"
    /\ speed_factor = <<1, 1>> /\ max_workers = 1
    /\ keep_temp = FALSE /\ progress_callback = TRUE
    /\ pc = "idle"
    /\ total_files = 0 /\ current_step = 0 /\ idx = 0
    /\ all_frames = << >> /\ frames = << >>
    /\ temp_dir = 0 /\ temp_dir_obj = FALSE /\ exc = FALSE
    /\ dirs = {} /\ disk = {} /\ outputs = {}
    /\ events = << >> /\ calls = << >> /\ releases = 0
    /\ XIdle /\ ResolverIdle /\ GuiIdle
    /\ report = ""

\* The overlay check box (lines 575-578).
ToggleOverlay ==
    /\ g_overlay_enabled' = ~g_overlay_enabled
    /\ UNCHANGED <<overlay_image_path, overlay_img, g_overlay_path,
                   overlay_file, o_loaded, o_applied, o_runs>>
    /\ UNCHANGED <<settings, runvars, xvars, resolvervars, guivars, report>>

\* select_overlay_image (lines 655-660): the dialog returns an existing file.
SelectOverlayImage ==
    /\ \E p \in OverlayPaths :
          /\ overlay_file[p] # "missing"
          /\ g_overlay_path' = Some(p)
    /\ UNCHANGED <<overlay_image_path, overlay_img, g_overlay_enabled,
                   overlay_file, o_loaded, o_applied, o_runs>>
    /\ UNCHANGED <<settings, runvars, xvars, resolvervars, guivars, report>>

\* Between two conversions the image file is deleted, replaced or restored.
FileChange ==
    /\ \E p \in OverlayPaths, st \in FileStates :
          /\ overlay_file[p] # st
          /\ overlay_file' = [overlay_file EXCEPT ![p] = st]
    /\ UNCHANGED <<overlay_image_path, overlay_img, g_overlay_enabled,
                   g_overlay_path, o_loaded, o_applied, o_runs>>
    /\ UNCHANGED <<settings, runvars, xvars, resolvervars, guivars, report>>

\* start_conversion on the application's one ConverterCore: the overlay
\* settings are copied (lines 837-843), run calls load_overlay (line 267)
\* and save_frame overlays every frame iff overlay_img is not None
\* (line 158).
StartConversion ==
    /\ o_runs < MaxOverlayRuns
    /\ LET enabled == g_overlay_enabled /\ g_overlay_path # None
           path == IF enabled THEN g_overlay_path ELSE None
           img  == IF enabled THEN overlay_img ELSE None
           res  == load_overlay(path, img, overlay_file)
       IN  /\ overlay_image_path' = path
           /\ overlay_img' = res.img
           /\ o_loaded' = IF res.ok THEN "loaded" ELSE "failed"
           /\ o_applied' = (res.img # None)
    /\ o_runs' = o_runs + 1
    /\ UNCHANGED <<g_overlay_enabled, g_overlay_path, overlay_file>>
    /\ UNCHANGED <<settings, runvars, xvars, resolvervars, guivars, report>>

NextOverlay ==
    \/ ToggleOverlay
    \/ SelectOverlayImage
    \/ FileChange
    \/ StartConversion

SpecOverlay == InitOverlay /\ [][NextOverlay]_vars

\* ============================== the GUI and its conversion threads
\* What the file dialog of select_webps can return.
GuiSelections ==
    {<<"a.webp", "b.webp">>, <<"c.webp">>}

\* del list[index], with index counted from 0.
DeleteAt(list, index) ==
    [j \in 1..(Len(list) - 1) |->
        IF j <= index THEN list[j] ELSE list[j + 1]]

InitGui ==
    /\ GuiIdle
    /\ webp_files = << >> /\ combine_videos = FALSE /\ output_format = ".mp4"
    /\ speed_factor = <<1, 1>> /\ max_workers = 1
    /\ keep_temp = FALSE /\ progress_callback = TRUE
    /\ pc = "idle"
    /\ total_files = 0 /\ current_step = 0 /\ idx = 0
    /\ all_frames = << >> /\ frames = << >>
    /\ temp_dir = 0 /\ temp_dir_obj = FALSE /\ exc = FALSE
    /\ dirs = {} /\ disk = {} /\ outputs = {}
    /\ events = << >> /\ calls = << >> /\ releases = 0
    /\ XIdle /\ ResolverIdle /\ OverlayIdle
    /\ report = ""

\* select_webps (lines 662-670): self.webp_files = list(files), a new list.
SelectWebps ==
    /\ n_lists < MaxLists
    /\ \E files \in GuiSelections :
          heap' = [heap EXCEPT ![n_lists + 1] = files]
    /\ n_lists' = n_lists + 1
    /\ app_webp_files' = n_lists + 1
    /\ UNCHANGED <<core_webp_files, core_temp_dir, g_dirs, g_disk, g_ops, th>>
    /\ UNCHANGED <<settings, runvars, xvars, resolvervars, overlayvars, report>>

\* clear_file_list (lines 776-780): self.webp_files = [], a new list.
ClearFileList ==
    /\ n_lists < MaxLists
    /\ heap' = [heap EXCEPT ![n_lists + 1] = << >>]
    /\ n_lists' = n_lists + 1
    /\ app_webp_files' = n_lists + 1
    /\ UNCHANGED <<core_webp_files, core_temp_dir, g_dirs, g_disk, g_ops, th>>
    /\ UNCHANGED <<settings, runvars, xvars, resolvervars, overlayvars, report>>

\* remove_file (lines 762-774): del self.webp_files[index] changes the list
\* object in place.
RemoveFile ==
    /\ \E index \in 0..(Len(heap[app_webp_files]) - 1) :
          heap' = [heap EXCEPT ![app_webp_files] =
                      DeleteAt(heap[app_webp_files], index)]
    /\ UNCHANGED <<app_webp_files, core_webp_files, n_lists, core_temp_dir,
                   g_dirs, g_disk, g_ops, th>>
    /\ UNCHANGED <<settings, runvars, xvars, resolvervars, overlayvars, report>>

\* start_conversion_thread and the head of start_conversion (lines 795-810):
\* the button is never disabled; with files selected the thread binds
\* core.webp_files to the GUI's list object.
StartConversionThread(r) ==
    /\ th[r].pc = "idle"
    /\ \A q \in Runs : q < r => th[q].pc # "idle"
    /\ heap[app_webp_files] # << >>
    /\ core_webp_files' = app_webp_files
    /\ th' = [th EXCEPT ![r].pc = "run"]
    /\ UNCHANGED <<app_webp_files, heap, n_lists, core_temp_dir, g_dirs,
                   g_disk, g_ops>>
    /\ UNCHANGED <<settings, runvars, xvars, resolvervars, overlayvars, report>>

\* run, lines 269-288 and 321: the length is taken, the thread's own
\* TemporaryDirectory is made and its path stored in self.temp_dir, and the
\* loop's iterator is made over the list core.webp_files refers to. With
\* an empty list run returns at once (lines 270-272).
RunBegin(r) ==
    /\ th[r].pc = "run"
    /\ IF heap[core_webp_files] = << >>
       THEN /\ th' = [th EXCEPT ![r].pc = "returned"]
            /\ UNCHANGED <<core_temp_dir, g_dirs>>
       ELSE /\ th' = [th EXCEPT ![r] =
                        [@ EXCEPT !.pc = "loop",
                                  !.total = Len(heap[core_webp_files]),
                                  !.snapshot = heap[core_webp_files],
                                  !.it_ref = core_webp_files,
                                  !.it_pos = 0,
                                  !.dir = r]]
            /\ core_temp_dir' = r
            /\ g_dirs' = g_dirs \cup {r}
    /\ UNCHANGED <<app_webp_files, core_webp_files, heap, n_lists, g_disk,
                   g_ops>>
    /\ UNCHANGED <<settings, runvars, xvars, resolvervars, overlayvars, report>>

\* The for statement (line 321): the list iterator yields the element at
\* its position in the list object as it is now, or ends the loop.
LoopNext(r) ==
    /\ th[r].pc = "loop"
    /\ th' = [th EXCEPT ![r] =
                IF th[r].it_pos < Len(heap[th[r].it_ref])
                THEN [@ EXCEPT !.pc = "extract",
                               !.file = heap[th[r].it_ref][th[r].it_pos + 1],
                               !.it_pos = @ + 1]
                ELSE [@ EXCEPT !.pc = "finally"]]
    /\ UNCHANGED <<app_webp_files, core_webp_files, heap, n_lists,
                   core_temp_dir, g_dirs, g_disk, g_ops>>
    /\ UNCHANGED <<settings, runvars, xvars, resolvervars, overlayvars, report>>

\* extract_frames (lines 192-202) of a file of one frame: self.temp_dir is
\* read, made if missing, and frame_000000.png is written under it, over a
\* file of that name. A frame file is [dir, writer, file]; the thread keeps
\* the directory of the path it returns.
GuiExtract(r) ==
    /\ th[r].pc = "extract"
    /\ g_dirs' = g_dirs \cup {core_temp_dir}
    /\ g_disk' = {f \in g_disk : f.dir # core_temp_dir}
                 \cup {[dir |-> core_temp_dir, writer |-> r,
                        file |-> th[r].file]}
    /\ th' = [th EXCEPT ![r] =
                [@ EXCEPT !.pc = "encode",
                          !.frames = {core_temp_dir},
                          !.processed = Append(@, th[r].file),
                          !.wrote = @ \cup {core_temp_dir}]]
    /\ UNCHANGED <<app_webp_files, core_webp_files, heap, n_lists,
                   core_temp_dir, g_ops>>
    /\ UNCHANGED <<settings, runvars, xvars, resolvervars, overlayvars, report>>

\* Lines 329-345: convert_to_video reads the frame files at the returned
\* paths (a missing one is an encoder error, caught), then each path is
\* unlinked.
GuiEncode(r) ==
    /\ th[r].pc = "encode"
    /\ LET mine == {f \in g_disk : f.dir \in th[r].frames}
       IN  /\ g_ops' = g_ops
                \cup {[op |-> "encode", run |-> r, writer |-> f.writer]
                        : f \in mine}
                \cup {[op |-> "delete", run |-> r, writer |-> f.writer]
                        : f \in mine}
           /\ g_disk' = g_disk \ mine
    /\ th' = [th EXCEPT ![r].pc = "loop"]
    /\ UNCHANGED <<app_webp_files, core_webp_files, heap, n_lists,
                   core_temp_dir, g_dirs>>
    /\ UNCHANGED <<settings, runvars, xvars, resolvervars, overlayvars, report>>

\* Lines 346-354: temp_dir_obj.cleanup() removes the thread's own directory
\* with what is in it; "Done!" and the return.
GuiFinally(r) ==
    /\ th[r].pc = "finally"
    /\ LET inside == {f \in g_disk : f.dir = th[r].dir}
       IN  /\ g_ops' = g_ops
                \cup {[op |-> "delete", run |-> r, writer |-> f.writer]
                        : f \in inside}
           /\ g_disk' = g_disk \ inside
    /\ g_dirs' = g_dirs \ {th[r].dir}
    /\ th' = [th EXCEPT ![r].pc = "returned"]
    /\ UNCHANGED <<app_webp_files, core_webp_files, heap, n_lists,
                   core_temp_dir>>
    /\ UNCHANGED <<settings, runvars, xvars, resolvervars, overlayvars, report>>

NextGui ==
    \/ SelectWebps
    \/ ClearFileList
    \/ RemoveFile
    \/ \E r \in Runs :
          \/ StartConversionThread(r)
          \/ RunBegin(r)
          \/ LoopNext(r)
          \/ GuiExtract(r)
          \/ GuiEncode(r)
          \/ GuiFinally(r)

SpecGui == InitGui /\ [][NextGui]_vars

\* =================================================================== claims
Allocated == temp_dir # 0
ExtractCalls == SelectSeq(calls, LAMBDA c : c.op = "extract")
EncodeCalls == SelectSeq(calls, LAMBDA c : c.op = "encode")
DoneEvent == Status("done", 0)

\* C1: a run with keep_temp=False that allocated the temporary directory
\* releases it exactly once, and the directory (with every frame file in it)
\* is gone once the finally block has run, whether run returns or raises.
C1_TempDirReleasedOnce ==
    (~keep_temp /\ Allocated) =>
        /\ releases <= 1
        /\ pc \in {"done", "returned", "raised"} =>
              /\ temp_dir \notin dirs
              /\ \A f \in disk : f[1] # temp_dir
              /\ releases = 1

C1_Witness ==
    /\ pc = "raised" /\ ~keep_temp /\ Allocated
    /\ temp_dir \notin dirs /\ releases = 1
    /\ Len(calls) > 2

\* C2: with combine_videos and output_format ".gif" (and files to convert)
\* run returns before a temporary directory exists and without any extract
\* or encode step, frame file or output file.
C2_CombineGifAbortsEarly ==
    (combine_videos /\ output_format = ".gif" /\ Len(webp_files) > 0) =>
        /\ pc \in {"idle", "returned"}
        /\ ~Allocated /\ dirs = {} /\ disk = {} /\ outputs = {}
        /\ calls = << >> /\ releases = 0

C2_Witness ==
    /\ pc = "returned" /\ combine_videos /\ output_format = ".gif"
    /\ Len(webp_files) > 1 /\ ~Allocated

\* The callback events of a non-combine run come in the order
\* extract status, fraction, [encode status, fraction] per file, files in
\* input order, "Done!" last.
C3_Ordered(E) ==
    \A j \in 1..Len(E) :
        /\ E[j].t = "fraction" =>
              j > 1 /\ E[j-1].t = "status" /\ E[j-1].kind \in {"extract", "encode"}
        /\ E[j].kind = "encode" =>
              j > 2 /\ E[j-1].t = "fraction" /\ E[j-2] = Status("extract", E[j].file)
        /\ E[j].kind = "extract" =>
              /\ j > 1 => E[j-1].t = "fraction"
              /\ \A k \in 1..(j-1) : E[k].t = "status" => E[k].file < E[j].file
        /\ E[j].kind = "done" => j = Len(E)

\* The four events of file f, consecutive and in order.
C3_FourEvents(E, f) ==
    \E j \in 1..(Len(E) - 3) :
        /\ E[j] = Status("extract", f)
        /\ E[j+1].t = "fraction"
        /\ E[j+2] = Status("encode", f)
        /\ E[j+3].t = "fraction"

\* C3 as stated: every file that yielded frames has its four events when the
\* run ends, and "Done!" is emitted only with the temporary directory gone.
C3_Original ==
    (~combine_videos /\ progress_callback) =>
        /\ C3_Ordered(events)
        /\ Terminated =>
              \A j \in 1..Len(calls) :
                  (calls[j].op = "extract" /\ calls[j].paths # << >>) =>
                      C3_FourEvents(events, calls[j].file)
        /\ (pc = "returned" /\ Allocated) => events[Len(events)] = DoneEvent
        /\ (Len(events) > 0 /\ events[Len(events)] = DoneEvent) =>
              temp_dir \notin dirs

\* C3 (amended): in non-combine mode the events are ordered extract status,
\* extract fraction, encode status, encode fraction per file, in input order;
\* every file that yielded frames and whose encode step returned has all
\* four; "Done!" is the last event of every run that reaches the end of the
\* file loop, emitted after the finally block: with the temporary directory
\* released, or kept when keep_temp was given.
C3_ProgressOrder ==
    (~combine_videos /\ progress_callback) =>
        /\ C3_Ordered(events)
        /\ \A j \in 1..Len(calls) :
              (calls[j].op = "extract" /\ calls[j].paths # << >>
                 /\ idx >= calls[j].file) =>
                  C3_FourEvents(events, calls[j].file)
        /\ (pc = "returned" /\ Allocated) => events[Len(events)] = DoneEvent
        /\ (Len(events) > 0 /\ events[Len(events)] = DoneEvent) =>
              /\ pc = "returned"
              /\ keep_temp => (temp_dir \in dirs /\ releases = 0)
              /\ ~keep_temp => (temp_dir \notin dirs /\ releases = 1)

C3_Witness ==
    /\ ~combine_videos /\ progress_callback /\ ~keep_temp
    /\ pc = "returned" /\ Len(events) = 9
    /\ events[9] = DoneEvent
    /\ C3_FourEvents(events, 1) /\ C3_FourEvents(events, 2)

\* Number of frames returned by the extract calls before call j.
RECURSIVE C4_Accumulated(_)
C4_Accumulated(j) ==
    IF j <= 1 THEN 0
    ELSE C4_Accumulated(j - 1) +
         (IF calls[j-1].op = "extract" THEN Len(calls[j-1].paths) ELSE 0)

\* C4: in combine mode every file is extracted with start index = number of
\* frames accumulated so far, and the accumulated list carries the indices
\* 0..k-1 in order, also across a file that contributes nothing.
C4_CombineContiguous ==
    combine_videos =>
        /\ \A i \in 1..Len(all_frames) : all_frames[i] = i - 1
        /\ \A j \in 1..Len(calls) :
              calls[j].op = "extract" =>
                  /\ calls[j].start = C4_Accumulated(j)
                  /\ \A i \in 1..Len(calls[j].paths) :
                        calls[j].paths[i] = calls[j].start + i - 1
        /\ Len(all_frames) = C4_Accumulated(Len(ExtractCalls) + 1)

C4_Witness ==
    /\ combine_videos /\ Len(calls) >= 3
    /\ Len(calls[1].paths) = 2 /\ calls[2].paths = << >>
    /\ calls[3].op = "extract" /\ calls[3].start = 2
    /\ all_frames = <<0, 1, 2, 3>>

\* C7: in non-combine mode an encoder failure is caught: the encode step is
\* counted, no exception is pending, and the run goes on with the next file;
\* a run that returns has extracted every file, in order.
C7_EncodeFailureContinues ==
    ~combine_videos =>
        /\ \A j \in 1..Len(calls) :
              (calls[j].op = "encode" /\ calls[j].outcome = "encoder_error") =>
                  /\ calls[j-1].op = "extract"
                  /\ calls[j].step = calls[j-1].step + 1
                  /\ j = Len(calls) =>
                        /\ ~exc /\ current_step = calls[j].step
                        /\ idx = calls[j].file
                        /\ calls[j].file < total_files => pc = "loop"
                  /\ j < Len(calls) =>
                        /\ calls[j+1].op = "extract"
                        /\ calls[j+1].file = calls[j].file + 1
                  /\ OutputName(calls[j].file, output_format) \notin outputs
        /\ (pc = "returned" /\ Allocated) =>
              /\ Len(ExtractCalls) = total_files
              /\ \A k \in 1..total_files : ExtractCalls[k].file = k
              /\ \A k \in 1..total_files :
                    ExtractCalls[k].paths # << >> =>
                        \E e \in 1..Len(EncodeCalls) :
                            /\ EncodeCalls[e].file = k
                            /\ EncodeCalls[e].paths = ExtractCalls[k].paths

C7_Witness ==
    /\ ~combine_videos /\ pc = "returned" /\ Len(calls) = 4
    /\ calls[2].op = "encode" /\ calls[2].outcome = "encoder_error"
    /\ calls[4].op = "encode" /\ calls[4].outcome = "ok"
    /\ current_step = 4

\* C8: a file whose decode fails yields no frame: in non-combine mode there
\* is no encode step and no output for it and the next file is extracted; in
\* combine mode nothing is accumulated and the next start index is the same.
C8_DecodeFailureSkipsFile ==
    \A j \in 1..Len(calls) :
        (calls[j].op = "extract" /\ ~webp_files[calls[j].file].ok) =>
            /\ calls[j].paths = << >>
            /\ \A e \in 1..Len(calls) :
                  calls[e].op = "encode" => calls[e].file # calls[j].file
            /\ ~combine_videos =>
                  OutputName(calls[j].file, output_format) \notin outputs
            /\ j < Len(calls) =>
                  /\ calls[j+1].op = "extract" \/ calls[j+1].file = 0
                  /\ calls[j+1].op = "extract" =>
                        /\ calls[j+1].file = calls[j].file + 1
                        /\ calls[j+1].start = calls[j].start
            /\ (j = Len(calls) /\ calls[j].file < total_files) =>
                  /\ pc = "loop" /\ idx = calls[j].file /\ ~exc
                  /\ combine_videos => Len(all_frames) = calls[j].start

C8_Witness ==
    /\ Len(calls) >= 3
    /\ calls[1].op = "extract" /\ calls[1].paths # << >>
    /\ calls[2].op = "extract" /\ ~webp_files[2].ok
    /\ calls[3].op = "extract" /\ calls[3].paths # << >>
    /\ combine_videos /\ calls[3].start = Len(calls[1].paths)

\* The frame lists of the first k extract calls, concatenated.
RECURSIVE C9_Concat(_)
C9_Concat(k) ==
    IF k = 0 THEN << >> ELSE C9_Concat(k - 1) \o ExtractCalls[k].paths

\* C9: in combine mode convert_to_video is called at most once, after every
\* file was extracted, over the concatenation of the files' frame lists in
\* input order, to an output named combined_...; once the loop is over it
\* has been called exactly once if frames were accumulated, never if not.
C9_CombineEncodesOnce ==
    combine_videos =>
        /\ Len(EncodeCalls) <= 1
        /\ \A j \in 1..Len(calls) :
              calls[j].op = "encode" =>
                  /\ j = Len(calls) /\ j = total_files + 1
                  /\ \A k \in 1..total_files :
                        calls[k].op = "extract" /\ calls[k].file = k
                  /\ calls[j].paths = C9_Concat(total_files)
                  /\ calls[j].paths # << >>
                  /\ calls[j].stem = "combined"
        /\ \A o \in outputs : o.stem = "combined"
        /\ pc \in {"finally", "done", "returned", "raised"} /\ Allocated =>
              (Len(EncodeCalls) = 1 <=> all_frames # << >>)

C9_Witness ==
    /\ combine_videos /\ pc = "returned" /\ Len(calls) = 4
    /\ calls[4].op = "encode" /\ calls[4].outcome = "ok"
    /\ calls[1].paths # << >> /\ calls[2].paths # << >> /\ calls[3].paths # << >>
    /\ outputs = {OutputName(0, output_format)}

\* ------------------------------------------------ claims on extract_frames
\* C5: the frame at resampled position i is written to the file with index
\* start_idx+i whatever the order in which the workers finish, the returned
\* list is in playback order, and so are the file names sorted as strings.
C5_PlaybackOrder ==
    /\ \A w \in x_written :
          w.path = x_start + w.pos /\ w.src = x_adjusted[w.pos + 1]
    /\ \A i \in 1..Len(x_frames) : x_frames[i] = x_start + i - 1
    /\ \A i, j \in 1..Len(x_frames) :
          i < j => StrLess(FrameName(x_frames[i]), FrameName(x_frames[j]))

\* C6: every path extract_frames returns names a frame file that was written.
C6_ReturnsOnlySaved ==
    x_pc = "returned" =>
        \A i \in 1..Len(x_frames) : \E w \in x_written : w.path = x_frames[i]

\* r is Python's round() of num/den: a nearest integer, the even one of two.
C10_IsRound(r, num, den) ==
    LET d == IF r * den >= num THEN r * den - num ELSE num - r * den
    IN  2 * d <= den /\ (2 * d = den => r % 2 = 0)

\* C10: the resampled indices lie in 0..N-1 and never decrease; for N >= 1
\* there are max(1, round(N*s)) of them when s # 1 and they are 0..N-1 when
\* s = 1; for N = 0 nothing is selected and no error is raised or logged.
C10_ResampleInRange ==
    (x_file.ok /\ x_pc # "decode") =>
        LET N == x_file.n
            A == x_adjusted
        IN  /\ \A i \in 1..Len(A) : A[i] \in 0..(N - 1)
            /\ \A i \in 1..(Len(A) - 1) : A[i] <= A[i + 1]
            /\ (N >= 1 /\ speed_factor # <<1, 1>>) =>
                  \E r \in 0..(N * speed_factor[1] + 1) :
                      /\ C10_IsRound(r, N * speed_factor[1], speed_factor[2])
                      /\ Len(A) = Max(1, r)
            /\ speed_factor = <<1, 1>> => A = [i \in 1..N |-> i - 1]
            /\ N >= 1 => Len(A) >= 1
            /\ N = 0 => (A = << >> /\ ~x_error)

C10_Witness ==
    /\ x_file.ok /\ x_pc = "submit"
    /\ x_file.n = 10 /\ speed_factor = <<1, 2>>
    /\ x_adjusted = <<0, 2, 4, 6, 8>>

\* C11 as stated: a speed factor above 1 drops frames (no more frames than
\* the original N), one below 1 duplicates frames (at least N frames).
C11_Original ==
    (x_file.ok /\ x_pc # "decode") =>
        /\ (speed_factor[1] > speed_factor[2]) => Len(x_adjusted) <= x_file.n
        /\ (speed_factor[1] < speed_factor[2]) => Len(x_adjusted) >= x_file.n

\* C11 (amended): a speed factor above 1 duplicates frames (at least N
\* frames, every source frame still selected), one below 1 drops frames
\* (at most N frames, no source frame selected twice).
C11_SpeedDirection ==
    (x_file.ok /\ x_pc # "decode") =>
        LET N == x_file.n
            A == x_adjusted
        IN  /\ (speed_factor[1] > speed_factor[2]) =>
                  /\ Len(A) >= N
                  /\ \A k \in 0..(N - 1) : \E i \in 1..Len(A) : A[i] = k
            /\ (speed_factor[1] < speed_factor[2]) =>
                  /\ Len(A) <= N
                  /\ \A i, j \in 1..Len(A) : i < j => A[i] < A[j]

C11_Witness ==
    /\ x_file.ok /\ x_pc = "submit" /\ x_file.n = 4
    /\ speed_factor = <<2, 1>>
    /\ x_adjusted = <<0, 0, 1, 1, 2, 2, 3, 3>>

\* -------------------------------------------- claims on get_target_size
C12_ScaleActive == scale_factor[1] > 0 /\ scale_factor # <<1, 1>>
\* Both custom dimensions set. A dimension that is None or 0 is not set; the
\* case of a negative dimension is the subject of C13 and is left open here.
C12_CustomActive ==
    /\ Lower(resolution_preset) = CustomLower
    /\ Positive(custom_width) /\ Positive(custom_height)
C12_CustomUnset ==
    \/ Lower(resolution_preset) # CustomLower
    \/ custom_width \in {None, Some(0)}
    \/ custom_height \in {None, Some(0)}
C12_PresetSize(name) ==
    IF name = P480 THEN <<854, 480>>
    ELSE IF name = P720 THEN <<1280, 720>>
    ELSE IF name = P1080 THEN <<1920, 1080>>
    ELSE IF name = P4k THEN <<3840, 2160>>
    ELSE << >>

\* get_target_size takes the first rule that applies: the scale factor
\* (> 0 and not 1) gives the rounded products, whatever preset and custom
\* size are; else `custom` with both dimensions set gives them; else a preset
\* name, in any letter case, gives its size; else the original size. The
\* call leaves the settings as they were.
C12_Priority ==
    t_pc = "returned" =>
        /\ C12_ScaleActive =>
              /\ C10_IsRound(t_result[1], t_size[1] * scale_factor[1],
                             scale_factor[2])
              /\ C10_IsRound(t_result[2], t_size[2] * scale_factor[1],
                             scale_factor[2])
        /\ (~C12_ScaleActive /\ C12_CustomActive) =>
              t_result = <<custom_width[1], custom_height[1]>>
        /\ (~C12_ScaleActive /\ C12_CustomUnset
              /\ C12_PresetSize(Lower(resolution_preset)) # << >>) =>
              t_result = C12_PresetSize(Lower(resolution_preset))
        /\ (~C12_ScaleActive /\ C12_CustomUnset
              /\ C12_PresetSize(Lower(resolution_preset)) = << >>) =>
              t_result = t_size

C12_NoStateChange ==
    [][UNCHANGED <<scale_factor, resolution_preset, custom_width,
                   custom_height, t_size, settings, overlayvars,
                   guivars>>]_vars

\* C12: in every call of get_target_size the result is the one the first
\* applicable rule gives (C12_Priority), and the call assigns no attribute
\* of the converter (C12_NoStateChange).
C12_PriorityPure == []C12_Priority /\ C12_NoStateChange

C12_Witness ==
    /\ t_pc = "returned" /\ scale_factor = <<3, 2>> /\ t_size = <<800, 600>>
    /\ resolution_preset = CustomTitle
    /\ custom_width = Some(640) /\ custom_height = Some(640)
    /\ t_result = <<1200, 900>>

\* C13: in mode `custom` the custom size is used only when both dimensions
\* are present and positive, and for a positive original size no dimension
\* of the result is zero or negative.
C13_CustomPositive ==
    t_pc = "returned" =>
        /\ (~C12_ScaleActive /\ Lower(resolution_preset) = CustomLower
              /\ ~(Positive(custom_width) /\ Positive(custom_height))) =>
              t_result = t_size
        /\ (t_size[1] > 0 /\ t_size[2] > 0) =>
              (t_result[1] > 0 /\ t_result[2] > 0)

\* ------------------------------------------------- claims on the overlay
\* C14: when load_overlay fails at the start of a run, the core holds no
\* overlay image and no frame of the run gets an overlay, also on a core
\* that loaded an overlay in an earlier run.
C14_NoStaleOverlay ==
    o_loaded = "failed" => (overlay_img = None /\ ~o_applied)

\* ------------------------------------------------ claims on keep_temp
\* With keep_temp=True the directory is never released and exists when run
\* has ended, by return or by exception.
C15_DirectoryKept ==
    (keep_temp /\ Allocated) =>
        /\ releases = 0
        /\ Terminated => temp_dir \in dirs

\* C15: with keep_temp=True the temporary directory is deleted on no exit
\* path and, after run has returned, it exists and holds the frame files the
\* run materialized (those that were encoded).
C15_FramesKept ==
    /\ C15_DirectoryKept
    /\ (keep_temp /\ Allocated /\ pc = "returned") =>
          \A k \in 1..Len(EncodeCalls) :
              EncodeCalls[k].outcome = "ok" =>
                  \A p \in Range(EncodeCalls[k].paths) :
                      <<temp_dir, p>> \in disk

\* ------------------------------------------- claims on the final report
C16_SuccessReports == {"Conversion completed", "Batch conversion finished"}

\* C16: a run that meets a run-fatal error (an exception leaving run, or the
\* combine + GIF configuration) never shows what a successful run shows: no
\* "Done!" event and no success report of the caller.
C16_FatalIsFailure ==
    (exc \/ (InvalidCombination(combine_videos, output_format)
                /\ Len(webp_files) > 0)) =>
        /\ \A k \in 1..Len(events) : events[k] # DoneEvent
        /\ report \notin C16_SuccessReports

\* The part that holds: no "Done!" event after a fatal error, and an
\* exception never leads to a success report.
C16_RaisedIsFailure ==
    /\ (exc \/ InvalidCombination(combine_videos, output_format)) =>
          \A k \in 1..Len(events) : events[k] # DoneEvent
    /\ exc => report \notin C16_SuccessReports

\* ------------------------------------------- claims on the worker pool
C17_AfterReturn == {"returned", "encode", "unlink", "next", "released"}

\* C17: extract_frames returns only when every save task it dispatched has
\* finished: while the caller encodes, deletes the frame files, begins the
\* next extraction or releases the directory, no save task is pending or
\* running.
C17_ReturnsAfterAllSaves ==
    /\ x_pc \in C17_AfterReturn => (Pending = {} /\ Running = {})
    /\ \A t \in Pending \cup Running : x_task[t].call = x_call

C17_Witness ==
    /\ x_call = 2 /\ x_pc = "encode" /\ max_workers = 2
    /\ \E t \in 1..Len(x_task) : x_task[t].st = "failed"
    /\ \E t \in 1..Len(x_task) : x_task[t].st = "saved"

\* C18: at every moment at most max_workers save tasks are executing, and
\* all of them were dispatched by the extract_frames call in progress, that
\* is, they belong to the same source file.
C18_BoundedPool ==
    /\ Cardinality(Running) <= max_workers
    /\ \A t \in Running : x_task[t].call = x_call /\ x_pc \in {"submit", "wait"}

C18_Witness ==
    /\ max_workers = 2 /\ Cardinality(Running) = 2 /\ Pending # {}
    /\ x_call = 2

C20_Fractions == SelectSeq(events, LAMBDA e : e.t = "fraction")

\* Every fraction lies in (0, 1] and is greater than the one before it.
C20_InRangeIncreasing ==
    /\ \A k \in 1..Len(C20_Fractions) :
          /\ 0 < C20_Fractions[k].num
          /\ C20_Fractions[k].num <= C20_Fractions[k].den
    /\ \A k \in 1..(Len(C20_Fractions) - 1) :
          C20_Fractions[k].num * C20_Fractions[k + 1].den
              < C20_Fractions[k + 1].num * C20_Fractions[k].den

\* The run has completed, every file yielded frames and the encode step ran.
C20_Completed ==
    /\ pc = "returned" /\ progress_callback
    /\ Len(webp_files) > 0
    /\ Len(ExtractCalls) = Len(webp_files)
    /\ \A k \in 1..Len(ExtractCalls) : ExtractCalls[k].paths # << >>
    /\ EncodeCalls # << >>

\* C20: the fractions lie in (0, 1], each greater than the previous one, and
\* in a completed run where every file yielded frames and the encode step
\* ran the last fraction is 1, in combine mode as in non-combine mode.
C20_ProgressReachesOne ==
    /\ C20_InRangeIncreasing
    /\ C20_Completed =>
          C20_Fractions[Len(C20_Fractions)].num
              = C20_Fractions[Len(C20_Fractions)].den

\* In non-combine mode the last fraction of such a run is 1.
C20_NonCombineReachesOne ==
    (C20_Completed /\ ~combine_videos) =>
        C20_Fractions[Len(C20_Fractions)].num
            = C20_Fractions[Len(C20_Fractions)].den

\* ------------------------------------------ claims on the GUI's threads
\* The files a thread has extracted so far are the first files of the list
\* as it was when its run started.
C21_IsPrefix(short, long) ==
    /\ Len(short) <= Len(long)
    /\ \A k \in 1..Len(short) : short[k] = long[k]

\* C21: a run processes the list of source files as it was when the run
\* started, in that order, whatever remove_file, clear_file_list and
\* select_webps do while the conversion thread runs.
C21_ListFixedAtStart ==
    \A r \in Runs :
        /\ C21_IsPrefix(th[r].processed, th[r].snapshot)
        /\ (th[r].pc = "returned" /\ th[r].dir # 0) =>
              th[r].processed = th[r].snapshot

\* Replacing the GUI's list (select_webps, clear_file_list) leaves the list
\* of a run alone: with no remove_file during the run the claim holds.
C21_RebindingIsHarmless ==
    \A r \in Runs :
        (th[r].dir # 0 /\ heap[th[r].it_ref] = th[r].snapshot) =>
            /\ C21_IsPrefix(th[r].processed, th[r].snapshot)
            /\ th[r].pc = "returned" => th[r].processed = th[r].snapshot

\* C22: with a second conversion started while the first runs, each run
\* writes its frames under the directory it allocated itself, and encodes
\* and deletes only frame files it wrote itself.
C22_RunsDoNotInterfere ==
    /\ \A r \in Runs : th[r].wrote \subseteq {th[r].dir}
    /\ \A o \in g_ops : o.writer = o.run

====
